---- MODULE Spec2Model ----
(***************************************************************************)
(* Model of src/main.ts (obsidian-rg): the search modal ObsidianRgModal,   *)
(* its debounced keydown handler, the idle-callback gate updateUI, the     *)
(* child process started by childCall with the modal's single AbortSignal, *)
(* the then/catch handlers of search() and updateNode.                     *)
(*                                                                         *)
(* Four specifications share the module:                                   *)
(*   Spec       the modal as an event-driven state machine;                *)
(*   ParseSpec  the parsing expression of childCall on every short stdout; *)
(*   CmdSpec    the settings tab and the command line childCall builds;    *)
(*   RenderSpec resultAsHTML on short result lists.                        *)
(*                                                                         *)
(* Text is modelled as a sequence of one-character strings.  In a process  *)
(* output one character stands for one JSON value: "a" and "b" are objects *)
(* of type "match", "s" is an object of another type (begin, end,          *)
(* summary), "x" is text that is not JSON.                                 *)
(***************************************************************************)
EXTENDS Integers, Sequences, FiniteSets, TLC

VARIABLES
    phase,      \* "new" after the constructor, "open" after onOpen, "closed" after onClose
    input,      \* input.value of the prompt input
    timers,     \* pending setTimeout callbacks of debounce: [id, age, ev]
    timeout,    \* debounce's variable timeout: a timer id, 0 for null/undefined
    sinceKey,   \* ms since the last keydown (capped at Wait)
    keys,       \* number of keydown events so far
    queued,     \* this.queued
    idleCbs,    \* pending requestIdleCallback callbacks, in request order
    exec,       \* this.exec: a run id, 0 for null
    aborted,    \* this.signal.aborted
    runs,       \* unsettled child processes / promises
    nextRun,    \* id of the next run
    lastSpawn,  \* the last childCall: its query and the number of keydowns before it
    children,   \* contentEl.children
    nSearch,    \* number of calls of search()
    firedInBurst, \* calls of search() since the last keydown
    burstLen,   \* length of the current run of keydowns less than Wait apart
    lastEv,     \* the keydown event the last search() call received
    renders,    \* log of updateNode calls made by the handlers of search()
    settings,   \* plugin.settings
    lastCall,   \* last command line built by childCall, with its inputs
    raw,        \* stdout given to the parsing expression of childCall
    parsed,     \* its result; done is FALSE before it ran
    resultSet,  \* the RgResult given to resultAsHTML
    rendered,   \* the elements resultAsHTML returned; done is FALSE before it ran
    lastOpen    \* the openLinkText call of an activated result; done is FALSE before it

modalVars == <<phase, input, timers, timeout, sinceKey, keys, queued, idleCbs, exec,
               aborted, runs, nextRun, lastSpawn, children, nSearch, firedInBurst,
               burstLen, lastEv, renders>>
cmdVars == <<settings, lastCall>>
parseVars == <<raw, parsed>>
renderVars == <<resultSet, rendered>>
navVars == <<lastOpen>>
vars == <<modalVars, cmdVars, parseVars, renderVars, navVars>>

None == "none"

----------------------------------------------------------------------------
(* Bounds of the model *)

MaxKeys == 2        \* keydown events in one behaviour
MaxOut == 5         \* length of stdout in ParseSpec
TickMs == 150       \* granularity of the clock
MaxLine == 3        \* length of a matched line in RenderSpec
MaxSub == 2         \* submatches of a matched line in RenderSpec
MaxResults == 2     \* length of a result list in RenderSpec

(* debounce(..., 300, false) *)
Wait == 300

----------------------------------------------------------------------------
(* Text helpers *)

Whitespace == {" ", "\n"}

RECURSIVE trimRight(_)
trimRight(s) ==
    IF s # <<>> /\ s[Len(s)] \in Whitespace
    THEN trimRight(SubSeq(s, 1, Len(s) - 1))
    ELSE s

RECURSIVE trimLeft(_)
trimLeft(s) ==
    IF s # <<>> /\ s[1] \in Whitespace THEN trimLeft(Tail(s)) ELSE s

(* String.prototype.split("\n"): always at least one piece; "" gives [""] *)
RECURSIVE split(_)
split(s) ==
    IF \E i \in 1..Len(s) : s[i] = "\n"
    THEN LET i == CHOOSE j \in 1..Len(s) : s[j] = "\n" /\ \A k \in 1..(j - 1) : s[k] # "\n"
         IN  <<SubSeq(s, 1, i - 1)>> \o split(SubSeq(s, i + 1, Len(s)))
    ELSE <<s>>

(* String.prototype.indexOf, counted from 1; 0 when pat does not occur *)
indexOf(text, pat) ==
    LET at == {i \in 1..(Len(text) - Len(pat) + 1) : SubSeq(text, i, i + Len(pat) - 1) = pat}
    IN  IF at = {} THEN 0 ELSE CHOOSE i \in at : \A j \in at : i <= j

(* String.prototype.replace with a string pattern: the first occurrence only *)
replace(text, pat, repl) ==
    LET i == indexOf(text, pat)
    IN  IF i = 0 THEN text
        ELSE SubSeq(text, 1, i - 1) \o repl \o SubSeq(text, i + Len(pat), Len(text))

(* String.prototype.replaceAll with a string pattern: every occurrence, found
   from left to right without overlap; the empty pattern matches before every
   character and at the end *)
RECURSIVE replaceAll(_, _, _)
replaceAll(text, pat, repl) ==
    IF pat = <<>>
    THEN IF text = <<>> THEN repl
         ELSE repl \o <<text[1]>> \o replaceAll(Tail(text), pat, repl)
    ELSE LET i == indexOf(text, pat)
         IN  IF i = 0 THEN text
             ELSE SubSeq(text, 1, i - 1) \o repl
                  \o replaceAll(SubSeq(text, i + Len(pat), Len(text)), pat, repl)

(* this.app.vault.adapter.basePath, as characters *)
basePathText == <<"/", "r", "o", "o", "t">>

(* the data of the two match objects of the model, as rg prints them for a
   search under basePath (line_number and absolute_offset are never read) *)
RgData(c) ==
    IF c = "a"
    THEN [path |-> basePathText \o <<"/", "a", ".", "m", "d">>,
          lines |-> <<"a", "b">>,
          submatches |-> << [match |-> <<"b">>, start |-> 1, end |-> 2] >>]
    ELSE [path |-> basePathText \o <<"/", "b", ".", "m", "d">>,
          lines |-> <<"b", " ", "b">>,
          submatches |-> << [match |-> <<"b">>, start |-> 0, end |-> 1],
                            [match |-> <<"b">>, start |-> 2, end |-> 3] >>]

(* the object one character of an output stands for *)
Decode(c) ==
    IF c \in {"a", "b"}
    THEN [type |-> "match", data |-> RgData(c)]
    ELSE [type |-> "summary", data |-> <<>>]

MatchRecords == {"a", "b"}
OtherRecords == {"s"}
Records == MatchRecords \cup OtherRecords

(* a decoder that passes over a line that is not JSON instead of throwing *)
JSONParseLenient(line) ==
    LET t == trimRight(trimLeft(line))
    IN  IF Len(t) = 1 /\ t[1] \in Records
        THEN [ok |-> TRUE, type |-> IF t[1] \in MatchRecords THEN "match" ELSE "other",
              rec |-> Decode(t[1])]
        ELSE [ok |-> TRUE, type |-> "other", rec |-> Decode("s")]

(* JSON.parse of one line: JSON text is one value with optional whitespace
   around it; anything else (the empty line included) throws SyntaxError *)
JSONParse(line) ==
    LET t == trimRight(trimLeft(line))
    IN  IF Len(t) = 1 /\ t[1] \in Records
        THEN [ok |-> TRUE, type |-> IF t[1] \in MatchRecords THEN "match" ELSE "other",
              rec |-> Decode(t[1])]
        ELSE [ok |-> FALSE, type |-> "SyntaxError", rec |-> None]

(* a filter that keeps the objects of every type *)
filterKeepsAll(rs) == [i \in 1..Len(rs) |-> rs[i].rec]

RECURSIVE filterMatch(_)
filterMatch(rs) ==
    IF rs = <<>> THEN <<>>
    ELSE IF rs[1].type = "match" THEN <<rs[1].rec>> \o filterMatch(Tail(rs))
         ELSE filterMatch(Tail(rs))

(* stdout.trimRight().split("\n").map(JSON.parse).filter(res => res.type === "match") *)
parseStdout(stdout) ==
    LET lines == split(trimRight(stdout))
        recs == [i \in 1..Len(lines) |-> JSONParse(lines[i])]
    IN  IF \E i \in 1..Len(recs) : ~recs[i].ok
        THEN [ok |-> FALSE, results |-> <<>>]
        ELSE [ok |-> TRUE, results |-> filterMatch(recs)]

(* The promise of childCall: promisify(exec) rejects on a non-zero exit
   status, and a throw of JSON.parse rejects it too *)
childCallResult(code, stdout) ==
    IF code # 0 THEN [ok |-> FALSE, results |-> <<>>] ELSE parseStdout(stdout)

----------------------------------------------------------------------------
(* The DOM of the modal: contentEl.children is a sequence of elements; an
   element carries its class, the run whose handler filled it and its child
   nodes *)

InputEl == [cls |-> "prompt-input", run |-> 0, nodes |-> <<>>]

(* errorMsg.innerText = "Sorry, no results found" *)
ErrorMsg == [kind |-> "message", text |-> <<"Sorry,", "no", "results", "found">>]

markOpen == <<"<", "m", "a", "r", "k", ">">>
markClose == <<"<", "/", "m", "a", "r", "k", ">">>

(* data.submatches.forEach(({match}) =>
     text = text.replaceAll(match.text, `<mark>${match.text}</mark>`)) *)
RECURSIVE highlight(_, _)
highlight(text, submatches) ==
    IF submatches = <<>> THEN text
    ELSE highlight(replaceAll(text, submatches[1].match,
                              markOpen \o submatches[1].match \o markClose),
                   Tail(submatches))

(* a replace whose pattern lacks the "/" after the root path *)
displayPathKeepsSlash(path) == replace(path, basePathText, <<>>)

(* data.path.text.replace(basePath + "/", "") *)
displayPath(path) == replace(path, basePathText \o <<"/">>, <<>>)

(* the link element of one result: innerHTML is <h4>path</h4><p>text</p>, and
   open is the path its onclick handler hands to openLinkText *)
resultItem(data) ==
    [kind |-> "suggestion-item", h4 |-> displayPath(data.path),
     p |-> highlight(data.lines, data.submatches), open |-> displayPath(data.path)]

(* resultAsHTML: one suggestion-item per result, in the order of the results *)
resultAsHTML(rgResult) ==
    [i \in 1..Len(rgResult) |-> resultItem(rgResult[i].data)]

(* the div the then-handler of search() has filled when it calls updateNode *)
thenDiv(run, results) ==
    [cls |-> "prompt-results", run |-> run,
     nodes |-> (IF Len(results) = 0 THEN <<ErrorMsg>> ELSE <<>>) \o resultAsHTML(results)]

(* a catch-handler that shows an empty container *)
catchDivEmpty(run) ==
    [cls |-> "prompt-results", run |-> run, nodes |-> <<>>]

(* the div the catch-handler of search() has filled when it calls updateNode *)
catchDiv(run) ==
    [cls |-> "prompt-results", run |-> run, nodes |-> <<ErrorMsg>>]

(* an updateNode that appends without looking for an existing container *)
updateNodeAppends(parentElem, div) == Append(parentElem, div)

updateNode(parentElem, div) ==
    IF \E i \in 1..Len(parentElem) : parentElem[i].cls = "prompt-results"
    THEN LET i == CHOOSE j \in 1..Len(parentElem) :
                      /\ parentElem[j].cls = "prompt-results"
                      /\ \A k \in 1..(j - 1) : parentElem[k].cls # "prompt-results"
         IN  [parentElem EXCEPT ![i] = div]
    ELSE Append(parentElem, div)

----------------------------------------------------------------------------
(* Child processes.  A run is the child process of one childCall together
   with the promise this.exec holds:
     st = "running"  the process runs;
     st = "exited"   the process has ended by itself, its result is not yet
                     delivered to the promise;
     st = "killed"   the abort signal has killed it, the promise rejects
                     with an AbortError.
   by records which handler called controller.abort() while the run was
   unsettled (None, "search", "close"). *)

Queries == {"a", "ab"}

(* what a process can end with: exit status 0 with an output; status 1, which
   rg gives when nothing matched; status 2, which rg gives on an error *)
Outcomes ==
    { [code |-> 0, stdout |-> <<"a", "\n", "b", "\n">>],
      [code |-> 0, stdout |-> <<"s", "\n">>],
      [code |-> 0, stdout |-> <<"a", "\n", "x", "\n">>],
      [code |-> 0, stdout |-> <<>>],
      [code |-> 1, stdout |-> <<>>],
      [code |-> 2, stdout |-> <<>>] }

(* controller.abort(): the first call fires the signal, which kills every
   process spawned with it that still runs; a later call does nothing *)
abortRun(r, wasAborted, why) ==
    [r EXCEPT !.st = IF ~wasAborted /\ @ = "running" THEN "killed" ELSE @,
              !.by = IF @ = None THEN why ELSE @]

(* exec(cmd, {signal}): with a signal that is already aborted the process is
   killed on the next tick, before any other event is handled *)
spawn(id, query, sigAborted) ==
    [id |-> id, query |-> query, st |-> IF sigAborted THEN "killed" ELSE "running",
     code |-> 0, stdout |-> <<>>, by |-> None]

Running == {r \in runs : r.st = "running"}

----------------------------------------------------------------------------
(* debounce *)

(* debounce without its clearTimeout call *)
clearTimeoutKeeps(ts, h) == ts

clearTimeout(ts, h) == {t \in ts : t.id # h}

advance(age) == IF age + TickMs >= Wait THEN Wait ELSE age + TickMs

(* time passes *)
Tick ==
    /\ sinceKey < Wait \/ \E t \in timers : t.age < Wait
    /\ timers' = {[t EXCEPT !.age = advance(@)] : t \in timers}
    /\ sinceKey' = advance(sinceKey)
    /\ UNCHANGED <<phase, input, timeout, keys, queued, idleCbs, exec, aborted, runs,
                   nextRun, children, nSearch, firedInBurst, burstLen, lastEv, renders,
                   lastSpawn>>
    /\ UNCHANGED <<cmdVars, parseVars, renderVars, navVars>>

(* input.onkeydown: the function debounce returns; the key then changes the
   value of the input to v *)
Keydown(v) ==
    /\ phase = "open"
    /\ keys < MaxKeys
    /\ keys' = keys + 1
    /\ timers' = clearTimeout(timers, timeout) \cup {[id |-> keys + 1, age |-> 0, ev |-> keys + 1]}
    /\ timeout' = keys + 1
    /\ input' = v
    /\ sinceKey' = 0
    /\ firedInBurst' = 0
    /\ burstLen' = IF keys > 0 /\ sinceKey < Wait THEN burstLen + 1 ELSE 1
    /\ UNCHANGED <<phase, queued, idleCbs, exec, aborted, runs, nextRun, children,
                   nSearch, lastEv, renders,
                   lastSpawn>>
    /\ UNCHANGED <<cmdVars, parseVars, renderVars, navVars>>

----------------------------------------------------------------------------
(* ObsidianRgModal *)

OnOpen ==
    /\ phase = "new"
    /\ phase' = "open"
    /\ queued' = FALSE
    /\ exec' = 0
    /\ children' = Append(children, InputEl)
    /\ UNCHANGED <<input, timers, timeout, sinceKey, keys, idleCbs, aborted, runs,
                   nextRun, nSearch, firedInBurst, burstLen, lastEv, renders,
                   lastSpawn>>
    /\ UNCHANGED <<cmdVars, parseVars, renderVars, navVars>>

(* updateUI(callback) *)
updateUI(cb) ==
    IF ~queued
    THEN queued' = TRUE /\ idleCbs' = Append(idleCbs, cb)
    ELSE UNCHANGED <<queued, idleCbs>>

(* search(e, parentElem) up to the call of updateUI *)
search(e) ==
    /\ IF exec # 0
       THEN /\ aborted' = TRUE
            /\ runs' = {abortRun(r, aborted, "search") : r \in runs}
       ELSE UNCHANGED <<aborted, runs>>
    /\ updateUI([ev |-> e])
    /\ nSearch' = nSearch + 1
    /\ firedInBurst' = firedInBurst + 1
    /\ lastEv' = e

(* the setTimeout callback of debounce, with immediate = false *)
TimerFire(t) ==
    /\ t \in timers
    /\ t.age >= Wait
    /\ timers' = timers \ {t}
    /\ timeout' = 0
    /\ search(t.ev)
    /\ UNCHANGED <<phase, input, sinceKey, keys, exec, nextRun, children, burstLen,
                   renders,
                   lastSpawn>>
    /\ UNCHANGED <<cmdVars, parseVars, renderVars, navVars>>

(* an idle callback that does not reset this.queued *)
RunIdleKeepsQueued ==
    /\ idleCbs # <<>>
    /\ idleCbs' = Tail(idleCbs)
    /\ runs' = runs \cup {spawn(nextRun, input, aborted)}
    /\ exec' = nextRun
    /\ nextRun' = nextRun + 1
    /\ lastSpawn' = [keys |-> keys, query |-> spawn(nextRun, input, aborted).query]
    /\ queued' = queued
    /\ UNCHANGED <<phase, input, timers, timeout, sinceKey, keys, aborted, children,
                   nSearch, firedInBurst, burstLen, lastEv, renders>>
    /\ UNCHANGED <<cmdVars, parseVars, renderVars, navVars>>

(* the requestIdleCallback callback of updateUI running the callback of
   search(): this.exec = this.childCall(e.target.value) *)
RunIdle ==
    /\ idleCbs # <<>>
    /\ idleCbs' = Tail(idleCbs)
    /\ runs' = runs \cup {spawn(nextRun, input, aborted)}
    /\ exec' = nextRun
    /\ nextRun' = nextRun + 1
    /\ lastSpawn' = [keys |-> keys, query |-> spawn(nextRun, input, aborted).query]
    /\ queued' = FALSE
    /\ UNCHANGED <<phase, input, timers, timeout, sinceKey, keys, aborted, children,
                   nSearch, firedInBurst, burstLen, lastEv, renders>>
    /\ UNCHANGED <<cmdVars, parseVars, renderVars, navVars>>

(* the child process ends by itself with an exit status and an output *)
ProcExit(r, o) ==
    /\ r \in runs
    /\ r.st = "running"
    /\ runs' = (runs \ {r}) \cup {[r EXCEPT !.st = "exited", !.code = o.code, !.stdout = o.stdout]}
    /\ UNCHANGED <<phase, input, timers, timeout, sinceKey, keys, queued, idleCbs, exec,
                   aborted, nextRun, children, nSearch, firedInBurst, burstLen, lastEv, renders,
                   lastSpawn>>
    /\ UNCHANGED <<cmdVars, parseVars, renderVars, navVars>>

Render(r, how, div) ==
    [run |-> r.id, query |-> r.query, by |-> r.by, closed |-> (phase = "closed"),
     st |-> r.st, code |-> r.code, stdout |-> r.stdout, how |-> how, nodes |-> div.nodes]

(* this.exec.then(results => ...) *)
SearchThen(r, results) ==
    /\ children' = updateNode(children, thenDiv(r.id, results))
    /\ renders' = Append(renders, Render(r, "then", thenDiv(r.id, results)))
    /\ exec' = 0

(* a catch-handler that leaves this.exec set *)
SearchCatchKeepsExec(r) ==
    /\ children' = updateNode(children, catchDiv(r.id))
    /\ renders' = Append(renders, Render(r, "catch", catchDiv(r.id)))
    /\ exec' = exec

(* .catch(() => ...) *)
SearchCatch(r) ==
    /\ children' = updateNode(children, catchDiv(r.id))
    /\ renders' = Append(renders, Render(r, "catch", catchDiv(r.id)))
    /\ exec' = 0

(* the promise of a run settles and its handler runs *)
Settle(r) ==
    /\ r \in runs
    /\ r.st \in {"exited", "killed"}
    /\ runs' = runs \ {r}
    /\ LET res == IF r.st = "killed" THEN [ok |-> FALSE, results |-> <<>>]
                  ELSE childCallResult(r.code, r.stdout)
       IN  IF res.ok THEN SearchThen(r, res.results) ELSE SearchCatch(r)
    /\ UNCHANGED <<phase, input, timers, timeout, sinceKey, keys, queued, idleCbs,
                   aborted, nextRun, nSearch, firedInBurst, burstLen, lastEv,
                   lastSpawn>>
    /\ UNCHANGED <<cmdVars, parseVars, renderVars, navVars>>

(* onClose without the abort of the run in flight *)
onCloseNoAbort ==
    /\ phase' = "closed"
    /\ queued' = FALSE
    /\ exec' = 0
    /\ children' = <<>>
    /\ UNCHANGED <<input, timers, timeout, sinceKey, keys, idleCbs, nextRun, nSearch,
                   firedInBurst, burstLen, lastEv, renders, aborted, runs,
                   lastSpawn>>

(* the body of onClose() *)
onClose ==
    /\ phase' = "closed"
    /\ queued' = FALSE
    /\ IF exec # 0
       THEN /\ aborted' = TRUE
            /\ runs' = {abortRun(r, aborted, "close") : r \in runs}
       ELSE UNCHANGED <<aborted, runs>>
    /\ exec' = 0
    /\ children' = <<>>
    /\ UNCHANGED <<input, timers, timeout, sinceKey, keys, idleCbs, nextRun, nSearch,
                   firedInBurst, burstLen, lastEv, renders,
                   lastSpawn>>

(* the user closes the modal; Modal.close() calls onClose() *)
OnClose ==
    /\ phase = "open"
    /\ onClose
    /\ UNCHANGED <<cmdVars, parseVars, renderVars, navVars>>

(* the suggestion-items on display, as <<child index, node index>> *)
Suggestions ==
    UNION { { <<c, n>> : n \in {k \in 1..Len(children[c].nodes) :
                                  children[c].nodes[k].kind = "suggestion-item"} } :
            c \in {i \in 1..Len(children) : children[i].cls = "prompt-results"} }

(* link.onclick = open: a click on a result with the given modifier keys:
   openLinkText(path, path, e.metaKey || e.ctrlKey), then this.close() *)
Activate(cn, metaKey, ctrlKey) ==
    /\ phase = "open"
    /\ cn \in Suggestions
    /\ lastOpen' = [done |-> TRUE, path |-> children[cn[1]].nodes[cn[2]].open,
                    newLeaf |-> (metaKey \/ ctrlKey)]
    /\ onClose
    /\ UNCHANGED <<cmdVars, parseVars, renderVars>>

----------------------------------------------------------------------------
(* DEFAULT_SETTINGS; additionalArguments is absent (None) *)
DEFAULT_SETTINGS == [rgLocation |-> "/usr/local/bin/rg", additionalArguments |-> None]

(* the state after new ObsidianRgModal(app, plugin) *)
ModalInit ==
    /\ phase = "new"
    /\ input = ""
    /\ timers = {}
    /\ timeout = 0
    /\ sinceKey = Wait
    /\ keys = 0
    /\ queued = FALSE
    /\ idleCbs = <<>>
    /\ exec = 0
    /\ aborted = FALSE
    /\ runs = {}
    /\ nextRun = 1
    /\ lastSpawn = [keys |-> 0, query |-> ""]
    /\ children = <<>>
    /\ nSearch = 0
    /\ firedInBurst = 0
    /\ burstLen = 0
    /\ lastEv = 0
    /\ renders = <<>>

NoCall == [built |-> FALSE, cmd |-> <<>>, settings |-> DEFAULT_SETTINGS, query |-> ""]
NotParsed == [done |-> FALSE, ok |-> FALSE, results |-> <<>>]
NotRendered == [done |-> FALSE, nodes |-> <<>>]
NotOpened == [done |-> FALSE, path |-> <<>>, newLeaf |-> FALSE]

(* nothing rendered outside the modal, no result activated *)
RenderInit ==
    /\ resultSet = <<>>
    /\ rendered = NotRendered
    /\ lastOpen = NotOpened

(* loadSettings() with nothing saved *)
SettingsInit ==
    /\ settings = DEFAULT_SETTINGS
    /\ lastCall = NoCall

Init ==
    /\ ModalInit
    /\ SettingsInit
    /\ RenderInit
    /\ raw = <<>>
    /\ parsed = NotParsed

Next ==
    \/ OnOpen
    \/ \E v \in Queries : Keydown(v)
    \/ Tick
    \/ \E t \in timers : TimerFire(t)
    \/ RunIdle
    \/ \E r \in runs, o \in Outcomes : ProcExit(r, o)
    \/ \E r \in runs : Settle(r)
    \/ OnClose
    \/ \E cn \in Suggestions, metaKey \in BOOLEAN, ctrlKey \in BOOLEAN :
          Activate(cn, metaKey, ctrlKey)

Spec == Init /\ [][Next]_vars

(* The event loop runs what is due: time passes, a timer that is due fires,
   a requested idle callback is run *)
Fairness ==
    /\ WF_vars(Tick)
    /\ WF_vars(\E t \in timers : TimerFire(t))
    /\ WF_vars(RunIdle)

FairSpec == Init /\ [][Next]_vars /\ Fairness

----------------------------------------------------------------------------
(* CmdSpec: the settings tab and the command line of childCall *)

RgLocations == {"/usr/local/bin/rg", "/usr/bin/rg", "rg"}
ExtraArguments == {"", "--hidden", "-i"}

(* this.app.vault.adapter.basePath *)
basePath == "/root"

(* `${rgLocation} "${query}" "${basePath}" --json`, as the pieces the template
   joins *)
commandLine(st, query, base) ==
    <<st.rgLocation, " ", "\"", query, "\"", " ", "\"", base, "\"", " ", "--json">>

(* onChange of the 'ripgrep location' setting *)
SetRgLocation(v) ==
    /\ settings' = [settings EXCEPT !.rgLocation = v]
    /\ UNCHANGED <<lastCall, modalVars, parseVars, renderVars, navVars>>

(* onChange of the 'ripgrep arguments' setting *)
SetAdditionalArguments(v) ==
    /\ settings' = [settings EXCEPT !.additionalArguments = v]
    /\ UNCHANGED <<lastCall, modalVars, parseVars, renderVars, navVars>>

(* childCall(query) building the command it hands to exec *)
ChildCallCommand(q) ==
    /\ lastCall' = [built |-> TRUE, cmd |-> commandLine(settings, q, basePath),
                    settings |-> settings, query |-> q]
    /\ UNCHANGED <<settings, modalVars, parseVars, renderVars, navVars>>

CmdNext ==
    \/ \E v \in RgLocations : SetRgLocation(v)
    \/ \E v \in ExtraArguments : SetAdditionalArguments(v)
    \/ \E q \in Queries : ChildCallCommand(q)

CmdSpec == Init /\ [][CmdNext]_vars

----------------------------------------------------------------------------
(* ParseSpec: the parsing expression of childCall on every output of at most
   MaxOut characters *)

Alphabet == Records \cup {"x", " ", "\n"}

Outputs == UNION {[1..n -> Alphabet] : n \in 0..MaxOut}

ParseInit ==
    /\ ModalInit
    /\ SettingsInit
    /\ RenderInit
    /\ raw \in Outputs
    /\ parsed = NotParsed

ParseOutput ==
    /\ ~parsed.done
    /\ parsed' = [done |-> TRUE, ok |-> parseStdout(raw).ok,
                  results |-> parseStdout(raw).results]
    /\ UNCHANGED <<raw, modalVars, cmdVars, renderVars, navVars>>

ParseNext == ParseOutput

ParseSpec == ParseInit /\ [][ParseNext]_vars

----------------------------------------------------------------------------
(* RenderSpec: resultAsHTML on every single match whose line has at most
   MaxLine characters and at most MaxSub submatches, on the line of the
   highlight example, and on the lists of at most MaxResults matches *)

LineAlphabet == {"a", "b", " "}

HelloWorld == <<"h", "e", "l", "l", "o", " ", "w", "o", "r", "l", "d">>

Lines == UNION {[1..n -> LineAlphabet] : n \in 0..MaxLine} \cup {HelloWorld}

(* one element of data.submatches: {match: {text}, start, end} *)
Submatch(line, s, e) == [match |-> SubSeq(line, s + 1, e), start |-> s, end |-> e]

(* the submatch lists rg can report for a line: non-empty spans, from left
   to right, without overlap *)
RECURSIVE SubmatchLists(_, _, _)
SubmatchLists(line, from, k) ==
    {<<>>} \cup
    (IF k = 0 THEN {}
     ELSE UNION { UNION { { <<Submatch(line, s, e)>> \o rest :
                              rest \in SubmatchLists(line, e, k - 1) } :
                          e \in (s + 1)..Len(line) } :
                  s \in from..(Len(line) - 1) })

ValidSubmatchLists(line) == SubmatchLists(line, 0, MaxSub)

RelPaths == { <<"a", ".", "m", "d">>, <<"b", ".", "m", "d">>,
              <<"r", "o", "o", "t", "/", "a", ".", "m", "d">> }

(* rg prints every path below the directory it was given *)
AbsPaths == { basePathText \o <<"/">> \o rel : rel \in RelPaths }

Match(path, line, subs) ==
    [type |-> "match", data |-> [path |-> path, lines |-> line, submatches |-> subs]]

SingleResults ==
    UNION { { <<Match(basePathText \o <<"/", "a", ".", "m", "d">>, line, subs)>> :
                subs \in ValidSubmatchLists(line) } : line \in Lines }

ListResults ==
    UNION { [1..n -> { Match(path, <<"a", "b">>, <<Submatch(<<"a", "b">>, 1, 2)>>) :
                        path \in AbsPaths }] : n \in 0..MaxResults }

RenderSpecInit ==
    /\ ModalInit
    /\ SettingsInit
    /\ raw = <<>>
    /\ parsed = NotParsed
    /\ lastOpen = NotOpened
    /\ rendered = NotRendered
    /\ resultSet \in SingleResults \cup ListResults

(* this.resultAsHTML(results) *)
RenderResults ==
    /\ ~rendered.done
    /\ rendered' = [done |-> TRUE, nodes |-> resultAsHTML(resultSet)]
    /\ UNCHANGED <<resultSet, lastOpen, modalVars, cmdVars, parseVars>>

RenderNext == RenderResults

RenderSpec == RenderSpecInit /\ [][RenderNext]_vars

----------------------------------------------------------------------------
(* Properties of the modal, checked under Spec *)

Settled(r) == r \in runs /\ \A q \in runs' : q.id # r.id

Containers == {i \in 1..Len(children) : children[i].cls = "prompt-results"}

(* C1: a run that search() or onClose() cancelled before its promise settled
   never causes a call of updateNode, neither from its then-handler nor from
   its catch-handler *)
C1_CancelledRunNeverRenders ==
    \A i \in 1..Len(renders) : renders[i].by = None

(* C2: supersede scenario: the container on display is never the one a run
   filled that a later search() superseded; only the superseding run's
   results are shown *)
C2_SupersededNeverDisplayed ==
    \A i \in Containers : \A j \in 1..Len(renders) :
        renders[j].run = children[i].run => renders[j].by # "search"

(* C4: at most one search process started by the view is running *)
C4_AtMostOneRunning ==
    Cardinality(Running) <= 1

(* C5: no call of updateNode happens after onClose() has run *)
C5_NoRenderAfterClose ==
    \A i \in 1..Len(renders) : ~renders[i].closed

(* C3: keydown events less than Wait ms apart trigger search() once: only
   when Wait ms have passed since the last keydown, not a second time before
   the next keydown, and with the latest keydown event (whose target holds
   the latest input value); once the timer of the last keydown is gone,
   search() has been called exactly once since that keydown *)
C3_DebounceFiresOnceAfterWindow ==
    /\ [][nSearch' # nSearch =>
            /\ nSearch' = nSearch + 1
            /\ sinceKey >= Wait
            /\ firedInBurst = 0
            /\ lastEv' = keys]_vars
    /\ [](firedInBurst <= 1)
    /\ []((keys > 0 /\ timers = {}) => firedInBurst = 1)

C3_Witness ==
    /\ burstLen >= 2
    /\ timers = {}
    /\ firedInBurst = 1
    /\ lastEv = keys

(* C6: when onClose() runs while a run is in flight, the run is cancelled:
   the signal is aborted, no process of the view runs any more, and this.exec
   is cleared *)
C6_CloseCancelsRunInFlight ==
    [][(phase = "open" /\ phase' = "closed" /\ runs # {}) =>
            /\ aborted'
            /\ exec' = 0
            /\ \A r \in runs' : r.st # "running"]_vars

C6_Witness ==
    /\ phase = "closed"
    /\ exec = 0
    /\ aborted
    /\ \E r \in runs : r.by = "close" /\ r.st = "killed"

Failed(r) ==
    r.st = "exited" /\ ~childCallResult(r.code, r.stdout).ok

MatchCount(out) == Cardinality({i \in 1..Len(out) : out[i] \in MatchRecords})

(* C7: when a run that failed (non-zero exit status or an undecodable line)
   settles, this.exec is empty again; and a run whose process succeeds is
   rendered when it settles, also after an earlier failure: its container is
   the one on display and holds one item per match record, or the single
   message when there is none *)
C7_FailureIsNotFatal ==
    [][\A r \in runs :
          /\ (Settled(r) /\ Failed(r)) => exec' = 0
          /\ (Settled(r) /\ r.st = "exited" /\ ~Failed(r)) =>
                \E i \in 1..Len(children') :
                    /\ children'[i].run = r.id
                    /\ \A n \in 1..MatchCount(r.stdout) :
                          children'[i].nodes[n].kind = "suggestion-item"
                    /\ Len(children'[i].nodes) =
                          IF MatchCount(r.stdout) = 0 THEN 1 ELSE MatchCount(r.stdout)]_vars

C7_Witness ==
    /\ phase = "open"
    /\ exec = 0
    /\ \E i, j \in 1..Len(renders) :
          /\ i < j
          /\ renders[i].st = "exited" /\ renders[i].how = "catch"
          /\ renders[j].how = "then"
          /\ renders[j].nodes # <<>> /\ renders[j].nodes[1].kind = "suggestion-item"
          /\ \E c \in Containers : children[c].run = renders[j].run

RECURSIVE HasWords(_, _)
HasWords(text, words) ==
    /\ Len(text) >= Len(words)
    /\ \/ SubSeq(text, 1, Len(words)) = words
       \/ HasWords(Tail(text), words)

Placeholders(nodes) ==
    {n \in 1..Len(nodes) :
        nodes[n].kind = "message" /\ HasWords(nodes[n].text, <<"no", "results", "found">>)}

NoMatchRender(e) ==
    e.st = "exited" /\ e.stdout = <<>> /\ e.code \in {0, 1}

(* C8: a run that ended with empty stdout, with exit status 0 or with the
   no-matches status 1, renders a container with exactly one node, the
   message "... no results found", and no suggestion-item *)
C8_NoMatchesOnePlaceholder ==
    \A i \in 1..Len(renders) :
        NoMatchRender(renders[i]) =>
            /\ Len(renders[i].nodes) = 1
            /\ Cardinality(Placeholders(renders[i].nodes)) = 1

C8_Witness ==
    /\ \E i \in 1..Len(renders) : NoMatchRender(renders[i]) /\ renders[i].code = 0
    /\ \E i \in 1..Len(renders) : NoMatchRender(renders[i]) /\ renders[i].code = 1

----------------------------------------------------------------------------
(* Properties of the command line, checked under CmdSpec *)

ExpectedExtra(st) ==
    IF st.additionalArguments \in {None, ""} THEN <<>> ELSE <<" ", st.additionalArguments>>

(* C9: the command line is the executable path, the query, the root path and
   --json, followed by the additionalArguments setting whenever it is set *)
C9_CommandLineHasExtraArguments ==
    lastCall.built =>
        lastCall.cmd =
            <<lastCall.settings.rgLocation, " ", "\"", lastCall.query, "\"", " ",
              "\"", basePath, "\"", " ", "--json">> \o ExpectedExtra(lastCall.settings)

----------------------------------------------------------------------------
(* Properties of the parser, checked under ParseSpec *)

(* C10: parsing the empty output gives the empty result list, not an error *)
C10_EmptyOutputParsesToEmpty ==
    (raw = <<>> /\ parsed.done) => (parsed.ok /\ parsed.results = <<>>)

IsMatchChar(c) == c \in {"a", "b"}

(* C11: for an output whose lines all decode, the parsed result is exactly the
   match objects of the output in the order the process wrote them; objects
   of other types are left out and nothing is re-sorted *)
C11_MatchesInEmissionOrder ==
    (parsed.done /\ parsed.ok) =>
        LET emitted == SelectSeq(raw, IsMatchChar)
        IN  /\ Len(parsed.results) = Len(emitted)
            /\ \A i \in 1..Len(emitted) :
                  /\ parsed.results[i].type = "match"
                  /\ parsed.results[i].data = RgData(emitted[i])

C11_Witness ==
    /\ raw = <<"b", "\n", "s", "\n", "a">>
    /\ parsed.done /\ parsed.ok
    /\ Len(parsed.results) = 2
    /\ parsed.results[1].data = RgData("b")
    /\ parsed.results[2].data = RgData("a")

----------------------------------------------------------------------------
(* Properties of the modal, continued (Spec) *)

ParseFailureRender(e) ==
    e.st = "exited" /\ e.code = 0 /\ \E k \in 1..Len(e.stdout) : e.stdout[k] = "x"

ExecutionFailureRender(e) ==
    e.st = "exited" /\ e.code # 0

(* C12: a run whose output has a line that is not valid structured data fails
   as a whole: its catch-handler renders, no match of the run is shown, and
   the container holds the same single message as after an execution failure *)
C12_BadLineFailsWholeRun ==
    \A i \in 1..Len(renders) :
        ParseFailureRender(renders[i]) =>
            /\ renders[i].how = "catch"
            /\ \A n \in 1..Len(renders[i].nodes) :
                  renders[i].nodes[n].kind # "suggestion-item"
            /\ renders[i].nodes = <<ErrorMsg>>
            /\ \A j \in 1..Len(renders) :
                  ExecutionFailureRender(renders[j]) =>
                      renders[j].nodes = renders[i].nodes

C12_Witness ==
    /\ \E i \in 1..Len(renders) :
          ParseFailureRender(renders[i]) /\ renders[i].stdout[1] = "a"
    /\ \E j \in 1..Len(renders) :
          ExecutionFailureRender(renders[j]) /\ renders[j].code = 2

----------------------------------------------------------------------------
(* Properties of the renderer, checked under RenderSpec *)

(* the line with each span [start, end) wrapped once, the rest unchanged *)
RECURSIVE WrapSpans(_, _)
WrapSpans(line, subs) ==
    IF subs = <<>> THEN line
    ELSE LET sm == subs[Len(subs)]
         IN  WrapSpans(SubSeq(line, 1, sm.start), SubSeq(subs, 1, Len(subs) - 1))
             \o markOpen \o SubSeq(line, sm.start + 1, sm.end) \o markClose
             \o SubSeq(line, sm.end + 1, Len(line))

(* C13: the snippet of every rendered match is its line with exactly the
   submatch spans [start, end) wrapped in <mark>, each span once, and every
   other character unchanged *)
C13_HighlightWrapsExactlyTheSpans ==
    rendered.done =>
        \A i \in 1..Len(resultSet) :
            rendered.nodes[i].p =
                WrapSpans(resultSet[i].data.lines, resultSet[i].data.submatches)

StartsWith(text, prefix) ==
    Len(text) >= Len(prefix) /\ SubSeq(text, 1, Len(prefix)) = prefix

(* C14: resultAsHTML returns one node per match, in the order of the result
   list, and the path shown by the i-th node is the path of the i-th match
   without the leading root path and its "/" *)
C14_OneNodePerMatchWithRelativePath ==
    rendered.done =>
        /\ Len(rendered.nodes) = Len(resultSet)
        /\ \A i \in 1..Len(resultSet) :
              LET path == resultSet[i].data.path
              IN  StartsWith(path, basePathText \o <<"/">>) =>
                      /\ rendered.nodes[i].kind = "suggestion-item"
                      /\ rendered.nodes[i].h4 =
                            SubSeq(path, Len(basePathText) + 2, Len(path))

C14_Witness ==
    /\ rendered.done
    /\ Len(resultSet) = 2
    /\ resultSet[1].data.path = <<"/", "r", "o", "o", "t", "/", "a", ".", "m", "d">>
    /\ resultSet[2].data.path = <<"/", "r", "o", "o", "t", "/", "b", ".", "m", "d">>
    /\ Len(rendered.nodes) = 2
    /\ rendered.nodes[1].h4 = <<"a", ".", "m", "d">>
    /\ rendered.nodes[2].h4 = <<"b", ".", "m", "d">>

----------------------------------------------------------------------------
(* Properties of the modal, continued (Spec) *)

(* C15: activating a result without a modifier key opens the file in the
   current pane and closes the view; with meta or ctrl it opens the file in
   a new pane and the view stays open *)
C15_ModifierKeepsViewOpen ==
    [][(~lastOpen.done /\ lastOpen'.done) =>
            phase' = IF lastOpen'.newLeaf THEN "open" ELSE "closed"]_vars

(* C16: contentEl never holds more than one prompt-results container, and
   every call of updateNode leaves exactly one, the new one: it replaces the
   container on display in one step or is appended when there is none *)
C16_AtMostOneResultContainer ==
    /\ [](Cardinality(Containers) <= 1)
    /\ [][Len(renders') > Len(renders) =>
            /\ Cardinality({i \in 1..Len(children') : children'[i].cls = "prompt-results"}) = 1
            /\ \E i \in 1..Len(children') :
                  /\ children'[i].cls = "prompt-results"
                  /\ children'[i].run = renders'[Len(renders')].run
            /\ Len(children') = IF Containers = {} THEN Len(children) + 1 ELSE Len(children)]_vars

C16_Witness ==
    /\ phase = "open"
    /\ Len(renders) >= 2
    /\ ~renders[1].closed
    /\ Cardinality(Containers) = 1
    /\ \E c \in Containers : children[c].run = renders[Len(renders)].run

(* C17: cancelling a superseded run leaves later runs alone: no run is
   killed by the signal unless search() or onClose() cancelled that run, so a
   run started after an earlier abort is spawned with a live signal *)
C17_LaterRunSpawnedWithLiveSignal ==
    \A r \in runs : r.st = "killed" => r.by # None

(* C18: after onClose() the view spawns no new search process *)
C18_NoSpawnAfterClose ==
    [][phase = "closed" => nextRun' = nextRun]_vars

(* C19: while the view stays open, after every keydown a childCall for the
   value the input then holds is eventually made, unless a later keydown
   changes the input first: after the last keydown the final value is
   searched *)
C19_FinalValueEventuallySearched ==
    [](keys > 0 =>
          <>(\/ phase = "closed"
             \/ lastSpawn.keys = keys /\ lastSpawn.query = input))

(* a trigger of the last keydown was dropped by updateUI, and the callback
   queued before it has searched the final value *)
C19_Witness ==
    /\ phase = "open"
    /\ keys >= 2
    /\ nSearch >= 2
    /\ nextRun = 2
    /\ lastEv = keys
    /\ timers = {} /\ idleCbs = <<>>
    /\ lastSpawn.keys = keys /\ lastSpawn.query = input

====
